---------------------------- MODULE Spec2Model ----------------------------
(***************************************************************************)
(* Break-time discrepancy engine of src/analysis.py: fuzzy name matching   *)
(* of ADP rows (source A) against Amazon rows (source B), discrepancy      *)
(* classification, sorting and conversation-script generation.             *)
(*                                                                         *)
(* Representation.                                                         *)
(*  - A name is a sequence of character codes (ASCII); the absent name     *)
(*    (Python None) is the empty sequence NoName.  The parsers only keep   *)
(*    names of length > 1, so no input name is empty.                      *)
(*  - A minutes cell is a record: Num(q) with q the value in QUARTER       *)
(*    minutes (20 min = 80), or one of the two absent values None (Python  *)
(*    None, object-dtype column) and NaN (float NaN, float64 column).      *)
(*    Quarter minutes are exactly representable as binary floats, so the   *)
(*    float subtraction is exact and round() is round-half-even.           *)
(*  - diff_minutes is Num(t) with t in TENTHS of a minute (1.0 = 10).      *)
(*  - A similarity score is the exact rational [num, den]; match_score is  *)
(*    in HUNDREDTHS (0.33 = 33).                                           *)
(*  - Break start/end timestamps and transporter_id are carried through    *)
(*    the pipeline untouched and are read by no modelled step; they are    *)
(*    left out of the rows.                                                *)
(***************************************************************************)
EXTENDS Integers, Sequences, FiniteSets, TLC

VARIABLES
    adp_df,      \* run_analysis: the frame parse_adp returned (source A)
    amazon_df,   \* run_analysis: the frame parse_amazon returned (source B)
    pc,          \* position in run_analysis: "match", "diff", "severity",
                 \* "direction", "needs_action", "sort", "script", "done",
                 \* or "raised" once an exception has left run_analysis
    i,           \* match_employees: next adp_df row of the first loop
    j,           \* match_employees: next amazon_df row of the second loop
    used_amz,    \* match_employees: Amazon indices claimed by an accepted match
    matches,     \* match_employees: the list of records built so far
    df,          \* the frame match_employees returned, and the columns added
    error        \* the exception that ended run_analysis, or "none"

vars == <<adp_df, amazon_df, pc, i, j, used_amz, matches, df, error>>

(***************************************************************************)
(* Bounds of the model.                                                    *)
(***************************************************************************)
MaxAdp == 2
MaxAmz == 2

(***************************************************************************)
(* Cells and small arithmetic helpers.                                     *)
(***************************************************************************)
Num(v) == [tag |-> "num", v |-> v]
None == [tag |-> "None", v |-> 0]
NaN == [tag |-> "NaN", v |-> 0]
NoName == << >>

isna(c) == c.tag # "num"
notna(c) == c.tag = "num"

Abs(x) == IF x < 0 THEN -x ELSE x
Max(a, b) == IF a >= b THEN a ELSE b

\* Python round(): n/d (d > 0) rounded to the nearest integer, ties to even.
RoundHalfEven(n, d) ==
    LET a == Abs(n)
        q == a \div d
        r == a % d
        m == IF 2 * r > d THEN q + 1
             ELSE IF 2 * r < d THEN q
             ELSE IF q % 2 = 0 THEN q ELSE q + 1
    IN  IF n < 0 THEN -m ELSE m

\* pandas' dtype inference for a column built from Python values: as soon as
\* one value is a float (a number or NaN) the column is float64 and every
\* None becomes NaN; a column of None only stays object and keeps None.
InferColumn(col) ==
    IF \E k \in 1..Len(col) : col[k].tag \in {"num", "NaN"}
    THEN [k \in 1..Len(col) |-> IF col[k].tag = "None" THEN NaN ELSE col[k]]
    ELSE col

(***************************************************************************)
(* Fuzzy name matching.                                                    *)
(***************************************************************************)
IsLower(c) == c \in 97..122
IsUpper(c) == c \in 65..90
IsLetter(c) == IsLower(c) \/ IsUpper(c)
IsSpace(c) == c \in {9, 10, 11, 12, 13, 28, 29, 30, 31, 32}
ToLower(c) == IF IsUpper(c) THEN c + 32 ELSE c

RECURSIVE Concat(_)
Concat(ss) == IF ss = << >> THEN << >> ELSE Head(ss) \o Concat(Tail(ss))

\* str.strip(): leading and trailing whitespace removed.
Strip(s) ==
    LET keep == {k \in 1..Len(s) : ~IsSpace(s[k])}
    IN  IF keep = {} THEN << >>
        ELSE LET lo == CHOOSE k \in keep : \A m \in keep : k <= m
                 hi == CHOOSE k \in keep : \A m \in keep : k >= m
             IN  SubSeq(s, lo, hi)

\* re.sub(r"([a-z])([A-Z])", r"\1 \2", name).strip()
_split_camelcase(name) ==
    Strip(Concat([k \in 1..Len(name) |->
        IF k < Len(name) /\ IsLower(name[k]) /\ IsUpper(name[k + 1])
        THEN <<name[k], 32>> ELSE <<name[k]>>]))

IsLetterOrSpace(c) == IsLetter(c) \/ IsSpace(c)

\* Variant of LettersOnlyLower: the other characters are deleted, not replaced.
LettersOnlyLowerDeleting(s) ==
    LET kept == SelectSeq(s, IsLetterOrSpace)
    IN  [k \in 1..Len(kept) |-> ToLower(kept[k])]

\* re.sub(r"[^a-zA-Z\s]", " ", name).lower()
LettersOnlyLower(s) ==
    [k \in 1..Len(s) |->
        IF IsLetter(s[k]) \/ IsSpace(s[k]) THEN ToLower(s[k]) ELSE 32]

\* str.split(): the maximal runs of non-whitespace characters.
SplitWords(s) ==
    LET starts == {a \in 1..Len(s) :
                      ~IsSpace(s[a]) /\ (a = 1 \/ IsSpace(s[a - 1]))}
        EndOf(a) == CHOOSE b \in a..Len(s) :
                      /\ b = Len(s) \/ IsSpace(s[b + 1])
                      /\ \A k \in a..b : ~IsSpace(s[k])
    IN  {SubSeq(s, a, EndOf(a)) : a \in starts}

_name_tokens(name) ==
    {w \in SplitWords(LettersOnlyLower(_split_camelcase(name))) : Len(w) > 1}

\* Python's "a in b" on strings.
IsSubstr(a, b) ==
    \E k \in 1..(Len(b) - Len(a) + 1) : SubSeq(b, k, k + Len(a) - 1) = a

_token_matches(ta, tb) ==
    Cardinality({a \in ta : \E b \in tb : IsSubstr(a, b) \/ IsSubstr(b, a)})

\* Variant of _overlap_score: the divisor is the size of the first token set.
_overlap_score_first(name_a, name_b) ==
    LET ta == _name_tokens(name_a)
        tb == _name_tokens(name_b)
    IN  IF ta = {} \/ tb = {} THEN [num |-> 0, den |-> 1]
        ELSE [num |-> _token_matches(ta, tb), den |-> Cardinality(ta)]

_overlap_score(name_a, name_b) ==
    LET ta == _name_tokens(name_a)
        tb == _name_tokens(name_b)
    IN  IF ta = {} \/ tb = {} THEN [num |-> 0, den |-> 1]
        ELSE [num |-> _token_matches(ta, tb),
              den |-> Max(Cardinality(ta), Cardinality(tb))]

\* Comparison of exact rationals with positive denominators.
ScoreGt(x, y) == x.num * y.den > y.num * x.den
ScoreGe(x, y) == x.num * y.den >= y.num * x.den

THRESHOLD == [num |-> 33, den |-> 100]

\* round(best_score, 2), in hundredths.
RoundScore(score) == RoundHalfEven(100 * score.num, score.den)

\* Variant of KeepBest: ">=" instead of ">", a tie goes to the last row.
KeepBestLast(best, score, amz_idx) ==
    IF ScoreGe(score, best.score) THEN [score |-> score, idx |-> amz_idx]
    ELSE best

\* The inner loop of match_employees over amazon_df.iterrows(): the running
\* best is replaced only by a strictly greater score.  idx 0 is Python None.
KeepBest(best, score, amz_idx) ==
    IF ScoreGt(score, best.score) THEN [score |-> score, idx |-> amz_idx]
    ELSE best

RECURSIVE ScanAmazon(_, _, _, _)
ScanAmazon(adp_name, amz, amz_idx, best) ==
    IF amz_idx > Len(amz) THEN best
    ELSE ScanAmazon(adp_name, amz, amz_idx + 1,
            KeepBest(best, _overlap_score(adp_name, amz[amz_idx].amz_name),
                     amz_idx))

BestAmazon(adp_name, amz) ==
    ScanAmazon(adp_name, amz, 1, [score |-> [num |-> 0, den |-> 1], idx |-> 0])

\* Variant of Accepted: the threshold test is dropped.
AcceptedNoThreshold(best) == best.idx # 0

Accepted(best) == ScoreGe(best.score, THRESHOLD) /\ best.idx # 0

PairedRecord(adp_row, amz_row, best_score) ==
    [adp_name |-> adp_row.adp_name,
     adp_break_minutes |-> adp_row.adp_break_minutes,
     amz_name |-> amz_row.amz_name,
     amz_break_minutes |-> amz_row.amz_break_minutes,
     match_score |-> RoundScore(best_score)]

\* Variant of AdpOnlyRecord: the ADP side is not copied into the record.
AdpOnlyRecordBlank(adp_row) ==
    [adp_name |-> NoName,
     adp_break_minutes |-> None,
     amz_name |-> NoName,
     amz_break_minutes |-> None,
     match_score |-> 0]

AdpOnlyRecord(adp_row) ==
    [adp_name |-> adp_row.adp_name,
     adp_break_minutes |-> adp_row.adp_break_minutes,
     amz_name |-> NoName,
     amz_break_minutes |-> None,
     match_score |-> 0]

AmzOnlyRecord(amz_row) ==
    [adp_name |-> NoName,
     adp_break_minutes |-> None,
     amz_name |-> amz_row.amz_name,
     amz_break_minutes |-> amz_row.amz_break_minutes,
     match_score |-> 0]

\* The record appended for one ADP row, and the Amazon index it claims.
MatchOne(adp_row, amz) ==
    LET best == BestAmazon(adp_row.adp_name, amz)
    IN  IF Accepted(best)
        THEN [rec |-> PairedRecord(adp_row, amz[best.idx], best.score),
              claim |-> {best.idx}]
        ELSE [rec |-> AdpOnlyRecord(adp_row), claim |-> {}]

\* Variant of Unmatched: used_amz is not consulted.
UnmatchedAlways(amz, amz_idx, used) == <<AmzOnlyRecord(amz[amz_idx])>>

\* The rows appended by the second loop for Amazon row amz_idx.
Unmatched(amz, amz_idx, used) ==
    IF amz_idx \notin used THEN <<AmzOnlyRecord(amz[amz_idx])>> ELSE << >>

\* match_employees as a function of its two frames: the list it builds
\* (matches) and the indices it has claimed (used_amz) after k ADP rows, then
\* after the second loop.
RECURSIVE FirstLoop(_, _, _)
FirstLoop(adp, amz, k) ==
    IF k = 0 THEN [matches |-> << >>, used_amz |-> {}]
    ELSE LET prev == FirstLoop(adp, amz, k - 1)
             m == MatchOne(adp[k], amz)
         IN  [matches |-> Append(prev.matches, m.rec),
              used_amz |-> prev.used_amz \cup m.claim]

RECURSIVE SecondLoop(_, _, _)
SecondLoop(amz, used, k) ==
    IF k = 0 THEN << >>
    ELSE SecondLoop(amz, used, k - 1) \o Unmatched(amz, k, used)

MatchList(adp, amz) ==
    LET first == FirstLoop(adp, amz, Len(adp))
    IN  first.matches \o SecondLoop(amz, first.used_amz, Len(amz))

\* pd.DataFrame(matches): the two minutes columns get their dtype inferred.
DataFrame(ms) ==
    LET adp_col == InferColumn([k \in 1..Len(ms) |-> ms[k].adp_break_minutes])
        amz_col == InferColumn([k \in 1..Len(ms) |-> ms[k].amz_break_minutes])
    IN  [k \in 1..Len(ms) |->
            [ms[k] EXCEPT !.adp_break_minutes = adp_col[k],
                          !.amz_break_minutes = amz_col[k]]]


(***************************************************************************)
(* Discrepancy calculation.                                                *)
(***************************************************************************)
\* Variant of _diff: ADP minus Amazon.
_diff_swapped(row) ==
    LET a == row.amz_break_minutes
        b == row.adp_break_minutes
    IN  IF notna(a) /\ notna(b) THEN Num(RoundHalfEven(10 * (b.v - a.v), 4))
        ELSE None

\* round(a - b, 1) with a the Amazon and b the ADP minutes, in tenths.
_diff(row) ==
    LET a == row.amz_break_minutes
        b == row.adp_break_minutes
    IN  IF notna(a) /\ notna(b) THEN Num(RoundHalfEven(10 * (a.v - b.v), 4))
        ELSE None

\* Variant of _severity: "and" instead of "or" in the missing-entry test.
_severity_and(row) ==
    LET a == row.amz_break_minutes
        b == row.adp_break_minutes
        d == Abs(row.diff_minutes.v)
    IN  IF isna(a) /\ isna(b) THEN "Missing Entry"
        ELSE IF d <= 10 THEN "Match"
        ELSE IF d <= 50 THEN "Minor"
        ELSE IF d <= 150 THEN "Moderate"
        ELSE "Major"

\* Variant of _severity: strict upper bounds.
_severity_strict(row) ==
    LET a == row.amz_break_minutes
        b == row.adp_break_minutes
        d == Abs(row.diff_minutes.v)
    IN  IF isna(a) \/ isna(b) THEN "Missing Entry"
        ELSE IF d < 10 THEN "Match"
        ELSE IF d < 50 THEN "Minor"
        ELSE IF d < 150 THEN "Moderate"
        ELSE "Major"

_severity(row) ==
    LET a == row.amz_break_minutes
        b == row.adp_break_minutes
        d == Abs(row.diff_minutes.v)
    IN  IF isna(a) \/ isna(b) THEN "Missing Entry"
        ELSE IF d <= 10 THEN "Match"
        ELSE IF d <= 50 THEN "Minor"
        ELSE IF d <= 150 THEN "Moderate"
        ELSE "Major"

\* Variant of _direction: the sign test is inverted.
_direction_inverted(row) ==
    LET d == row.diff_minutes
        sev == row.severity
    IN  IF sev = "Missing Entry" THEN "Warning Missing"
        ELSE IF isna(d) THEN "-"
        ELSE IF Abs(d.v) <= 10 THEN "Match"
        ELSE IF d.v < 0 THEN "Amazon > ADP" ELSE "ADP > Amazon"

_direction(row) ==
    LET d == row.diff_minutes
        sev == row.severity
    IN  IF sev = "Missing Entry" THEN "Warning Missing"
        ELSE IF isna(d) THEN "-"
        ELSE IF Abs(d.v) <= 10 THEN "Match"
        ELSE IF d.v > 0 THEN "Amazon > ADP" ELSE "ADP > Amazon"

\* Variant of NeedsAction: Missing Entry is left out.
NeedsActionTiersOnly(sev) == sev \in {"Minor", "Moderate", "Major"}

NeedsAction(sev) == sev \in {"Minor", "Moderate", "Major", "Missing Entry"}

\* Variant of WithDiff: the difference also replaces the Amazon minutes.
WithDiffInPlace(frame) ==
    LET col == InferColumn([k \in 1..Len(frame) |-> _diff(frame[k])])
    IN  [k \in 1..Len(frame) |->
            [diff_minutes |-> col[k], amz_break_minutes |-> col[k]] @@ frame[k]]

\* df[column] = df.apply(f, axis=1) for the four derived columns; assigning to
\* a column that exists replaces it.
WithDiff(frame) ==
    LET col == InferColumn([k \in 1..Len(frame) |-> _diff(frame[k])])
    IN  [k \in 1..Len(frame) |-> [diff_minutes |-> col[k]] @@ frame[k]]

WithSeverity(frame) ==
    [k \in 1..Len(frame) |-> [severity |-> _severity(frame[k])] @@ frame[k]]

WithDirection(frame) ==
    [k \in 1..Len(frame) |-> [direction |-> _direction(frame[k])] @@ frame[k]]

WithNeedsAction(frame) ==
    [k \in 1..Len(frame) |->
        [needs_action |-> NeedsAction(frame[k].severity)] @@ frame[k]]

(***************************************************************************)
(* Conversation scripts.                                                   *)
(***************************************************************************)
Employee == <<69, 109, 112, 108, 111, 121, 101, 101>>   \* "Employee"

\* format(x, ".0f"): a number of `unit` parts per minute is rendered as the
\* nearest integer (ties to even), NaN as "nan"; None raises TypeError.
Format0f(c, unit) ==
    IF c.tag = "num" THEN [raised |-> FALSE, text |-> Num(RoundHalfEven(c.v, unit))]
    ELSE IF c.tag = "NaN" THEN [raised |-> FALSE, text |-> NaN]
    ELSE [raised |-> TRUE, text |-> None]

\* Variant of Longer: the two sources are exchanged.
LongerExchanged(diff) ==
    IF diff.tag = "num" /\ diff.v > 0 THEN "ADP" ELSE "Amazon app"

\* longer = "Amazon app" if diff > 0 else "ADP", and shorter the other way.
Longer(diff) ==
    IF diff.tag = "num" /\ diff.v > 0 THEN "Amazon app" ELSE "ADP"

Shorter(diff) ==
    IF diff.tag = "num" /\ diff.v > 0 THEN "ADP" ELSE "Amazon app"

Script(template, emp, longer, shorter, shown) ==
    [raised |-> FALSE,
     script |-> [template |-> template, emp |-> emp, longer |-> longer,
                 shorter |-> shorter, shown |-> shown]]

Raise == [raised |-> TRUE, script |-> None]

build_script(row) ==
    LET emp == IF row.adp_name # NoName THEN row.adp_name
               ELSE IF row.amz_name # NoName THEN row.amz_name
               ELSE Employee
        sev == row.severity
        a_m == row.amz_break_minutes
        b_m == row.adp_break_minutes
        diff == row.diff_minutes
        fa == Format0f(a_m, 4)
        fb == Format0f(b_m, 4)
        fd == Format0f([diff EXCEPT !.v = Abs(diff.v)], 10)
    IN  IF sev = "Match"
        THEN Script("No action needed", NoName, "", "", << >>)
        ELSE IF sev = "Missing Entry"
        THEN IF isna(a_m)
             THEN IF fb.raised THEN Raise
                  ELSE Script("Logged in ADP, no record in Amazon app", emp,
                              "", "", <<fb.text>>)
             ELSE IF fa.raised THEN Raise
                  ELSE Script("Logged in Amazon app, no entry in ADP", emp,
                              "", "", <<fa.text>>)
        \* diff > 0 on None raises TypeError; NaN > 0 is False.
        ELSE IF diff.tag = "None" \/ fd.raised \/ fa.raised \/ fb.raised
        THEN Raise
        ELSE Script("Discrepancy", emp, Longer(diff), Shorter(diff),
                    <<fd.text, fa.text, fb.text>>)

(***************************************************************************)
(* Full pipeline: severity rank, stable sort, scripts.                     *)
(***************************************************************************)
\* sev_order with .fillna(5)
SevOrder(sev) ==
    CASE sev = "Major" -> 0
      [] sev = "Moderate" -> 1
      [] sev = "Minor" -> 2
      [] sev = "Missing Entry" -> 3
      [] sev = "Match" -> 4
      [] OTHER -> 5

WithSortKey(frame) ==
    [k \in 1..Len(frame) |-> [sort_key |-> SevOrder(frame[k].severity)] @@ frame[k]]

\* Python's string order: lexicographic on code points.
RECURSIVE StrLess(_, _)
StrLess(s, t) ==
    IF t = << >> THEN FALSE
    ELSE IF s = << >> THEN TRUE
    ELSE IF Head(s) # Head(t) THEN Head(s) < Head(t)
    ELSE StrLess(Tail(s), Tail(t))

\* Variant of RowLess: the "_sort" key is left out of the order.
RowLessByName(r, t) ==
    /\ r.adp_name # NoName
    /\ (t.adp_name = NoName \/ StrLess(r.adp_name, t.adp_name))

\* Ascending order on ("_sort", "adp_name"), absent names last.
RowLess(r, t) ==
    \/ r.sort_key < t.sort_key
    \/ /\ r.sort_key = t.sort_key
       /\ r.adp_name # NoName
       /\ (t.adp_name = NoName \/ StrLess(r.adp_name, t.adp_name))

\* Stable insertion: a row goes after every row that is not greater.
RECURSIVE InsertRow(_, _)
InsertRow(sorted, r) ==
    IF sorted = << >> THEN <<r>>
    ELSE IF RowLess(r, Head(sorted)) THEN <<r>> \o sorted
    ELSE <<Head(sorted)>> \o InsertRow(Tail(sorted), r)

RECURSIVE SortRows(_, _)
SortRows(frame, k) ==
    IF k = 0 THEN << >> ELSE InsertRow(SortRows(frame, k - 1), frame[k])

HasAdpName(r) == r.adp_name # NoName

\* Variant of sort_values: rows without an ADP name are dropped.
sort_values_dropna(frame) ==
    LET named == SelectSeq(frame, HasAdpName)
    IN  SortRows(named, Len(named))

\* result.sort_values(["_sort", "adp_name"]).reset_index(drop=True)
sort_values(frame) == SortRows(frame, Len(frame))


(***************************************************************************)
(* Inputs.  parse_adp yields one row per employee name (groupby) and       *)
(* parse_amazon drops duplicate names, so names are distinct within a      *)
(* source.  parse_adp builds its frame from Python values (None for a      *)
(* missing break), parse_amazon's minutes column is numeric (NaN).         *)
(***************************************************************************)
AdpNames ==
    { <<65, 108, 32, 66, 111>>,                               \* "Al Bo"
      <<97, 108, 32, 99, 121, 32, 100, 105>>,                 \* "al cy di"
      <<97, 108, 32, 99, 121, 32, 100, 105, 32, 101, 100>>,   \* "al cy di ed"
      <<74, 32, 82>> }                                        \* "J R"

AmzNames ==
    { <<65, 108, 66, 111, 57>>,                               \* "AlBo9"
      <<97, 108>>,                                            \* "al"
      <<66, 111>> }                                           \* "Bo"

AdpMinutes == {None, Num(80)}
AmzMinutes == {NaN, Num(120)}

Distinct(names) ==
    \A a, b \in 1..Len(names) : a # b => names[a] # names[b]

AdpFrames ==
    LET rows == [adp_name : AdpNames, adp_break_minutes : AdpMinutes]
        seqs == UNION {[1..n -> rows] : n \in 0..MaxAdp}
    IN  {[k \in 1..Len(f) |->
            [f[k] EXCEPT !.adp_break_minutes =
                InferColumn([m \in 1..Len(f) |-> f[m].adp_break_minutes])[k]]] :
         f \in {g \in seqs : Distinct([k \in 1..Len(g) |-> g[k].adp_name])}}

AmazonFrames ==
    LET rows == [amz_name : AmzNames, amz_break_minutes : AmzMinutes]
        seqs == UNION {[1..n -> rows] : n \in 0..MaxAmz}
    IN  {g \in seqs : Distinct([k \in 1..Len(g) |-> g[k].amz_name])}

Init ==
    /\ adp_df \in AdpFrames
    /\ amazon_df \in AmazonFrames
    /\ pc = "match"
    /\ i = 1
    /\ j = 1
    /\ used_amz = {}
    /\ matches = << >>
    /\ df = << >>
    /\ error = "none"

(***************************************************************************)
(* match_employees: one step per iteration of each of its two loops, and   *)
(* the construction of the returned frame.                                 *)
(***************************************************************************)
\* Variant of MatchAdpRow: exclusive matching, an Amazon row already claimed
\* is skipped by the scan.
RECURSIVE ScanAmazonFree(_, _, _, _, _)
ScanAmazonFree(adp_name, amz, used, amz_idx, best) ==
    IF amz_idx > Len(amz) THEN best
    ELSE ScanAmazonFree(adp_name, amz, used, amz_idx + 1,
            IF amz_idx \in used THEN best
            ELSE KeepBest(best, _overlap_score(adp_name, amz[amz_idx].amz_name),
                          amz_idx))

MatchAdpRowExclusive ==
    /\ pc = "match"
    /\ i <= Len(adp_df)
    /\ LET best == ScanAmazonFree(adp_df[i].adp_name, amazon_df, used_amz, 1,
                       [score |-> [num |-> 0, den |-> 1], idx |-> 0])
       IN  IF Accepted(best)
           THEN /\ matches' = Append(matches,
                       PairedRecord(adp_df[i], amazon_df[best.idx], best.score))
                /\ used_amz' = used_amz \cup {best.idx}
           ELSE /\ matches' = Append(matches, AdpOnlyRecord(adp_df[i]))
                /\ used_amz' = used_amz
    /\ i' = i + 1
    /\ UNCHANGED <<adp_df, amazon_df, pc, j, df, error>>

MatchAdpRow ==
    /\ pc = "match"
    /\ i <= Len(adp_df)
    /\ LET m == MatchOne(adp_df[i], amazon_df)
       IN  /\ matches' = Append(matches, m.rec)
           /\ used_amz' = used_amz \cup m.claim
    /\ i' = i + 1
    /\ UNCHANGED <<adp_df, amazon_df, pc, j, df, error>>

ScanUnmatchedAmazon ==
    /\ pc = "match"
    /\ i > Len(adp_df)
    /\ j <= Len(amazon_df)
    /\ matches' = matches \o Unmatched(amazon_df, j, used_amz)
    /\ j' = j + 1
    /\ UNCHANGED <<adp_df, amazon_df, pc, i, used_amz, df, error>>

ReturnMatches ==
    /\ pc = "match"
    /\ i > Len(adp_df)
    /\ j > Len(amazon_df)
    /\ df' = DataFrame(matches)
    /\ pc' = "diff"
    /\ UNCHANGED <<adp_df, amazon_df, i, j, used_amz, matches, error>>

(***************************************************************************)
(* calculate_discrepancies: one step per derived column.                   *)
(***************************************************************************)
CalcDiff ==
    /\ pc = "diff"
    /\ df' = WithDiff(df)
    /\ pc' = "severity"
    /\ UNCHANGED <<adp_df, amazon_df, i, j, used_amz, matches, error>>

CalcSeverity ==
    /\ pc = "severity"
    /\ df' = WithSeverity(df)
    /\ pc' = "direction"
    /\ UNCHANGED <<adp_df, amazon_df, i, j, used_amz, matches, error>>

CalcDirection ==
    /\ pc = "direction"
    /\ df' = WithDirection(df)
    /\ pc' = "needs_action"
    /\ UNCHANGED <<adp_df, amazon_df, i, j, used_amz, matches, error>>

CalcNeedsAction ==
    /\ pc = "needs_action"
    /\ df' = WithNeedsAction(df)
    /\ pc' = "sort"
    /\ UNCHANGED <<adp_df, amazon_df, i, j, used_amz, matches, error>>

(***************************************************************************)
(* run_analysis after classification: sort, then the scripts.              *)
(***************************************************************************)
SortResult ==
    /\ pc = "sort"
    /\ df' = sort_values(WithSortKey(df))
    /\ pc' = "script"
    /\ UNCHANGED <<adp_df, amazon_df, i, j, used_amz, matches, error>>

\* result["conversation_script"] = result.apply(build_script, axis=1)
WithScript(frame) ==
    [k \in 1..Len(frame) |->
        [conversation_script |-> build_script(frame[k]).script] @@ frame[k]]

\* result.apply(build_script, axis=1): the first row whose script raises
\* aborts run_analysis.
ApplyBuildScript ==
    /\ pc = "script"
    /\ Len(df) > 0
    /\ IF \E k \in 1..Len(df) : build_script(df[k]).raised
       THEN /\ pc' = "raised"
            /\ error' = "TypeError"
            /\ df' = df
       ELSE /\ pc' = "done"
            /\ error' = error
            /\ df' = WithScript(df)
    /\ UNCHANGED <<adp_df, amazon_df, i, j, used_amz, matches>>

\* On a frame without rows DataFrame.apply returns a frame, not a column, and
\* whether assigning it to one column raises depends on the pandas version.
ApplyBuildScriptEmpty ==
    /\ pc = "script"
    /\ Len(df) = 0
    /\ \E outcome \in {"done", "raised"} :
          /\ pc' = outcome
          /\ error' = IF outcome = "raised" THEN "ValueError" ELSE error
    /\ UNCHANGED <<adp_df, amazon_df, i, j, used_amz, matches, df>>

Next ==
    \/ MatchAdpRow
    \/ ScanUnmatchedAmazon
    \/ ReturnMatches
    \/ CalcDiff
    \/ CalcSeverity
    \/ CalcDirection
    \/ CalcNeedsAction
    \/ SortResult
    \/ ApplyBuildScript
    \/ ApplyBuildScriptEmpty

Spec == Init /\ [][Next]_vars


(***************************************************************************)
(* Classification of a single merged row: calculate_discrepancies, the     *)
(* sort and build_script applied to every shape of row match_employees can *)
(* return (paired, ADP only, Amazon only), over a range of minute values   *)
(* that covers every severity tier and its boundaries.                     *)
(***************************************************************************)
MinuteValues ==
    {Num(q) : q \in {76, 80, 84, 85, 100, 101, 120, 140, 141, 144}}

MergedRows ==
    LET an == <<65, 108, 32, 66, 111>>
        bn == <<65, 108, 66, 111, 57>>
    IN  [adp_name : {an}, adp_break_minutes : MinuteValues \cup {None, NaN},
         amz_name : {bn}, amz_break_minutes : MinuteValues \cup {NaN},
         match_score : {100}]
        \cup
        [adp_name : {an}, adp_break_minutes : MinuteValues \cup {None, NaN},
         amz_name : {NoName}, amz_break_minutes : {None, NaN},
         match_score : {0}]
        \cup
        [adp_name : {NoName}, adp_break_minutes : {None, NaN},
         amz_name : {bn}, amz_break_minutes : MinuteValues \cup {NaN},
         match_score : {0}]

InitClassify ==
    /\ adp_df = << >>
    /\ amazon_df = << >>
    /\ pc = "diff"
    /\ i = 1
    /\ j = 1
    /\ used_amz = {}
    /\ matches = << >>
    /\ df \in {<<r>> : r \in MergedRows}
    /\ error = "none"

NextClassify ==
    \/ CalcDiff
    \/ CalcSeverity
    \/ CalcDirection
    \/ CalcNeedsAction
    \/ SortResult
    \/ ApplyBuildScript

SpecClassify == InitClassify /\ [][NextClassify]_vars

(***************************************************************************)
(* Properties.                                                             *)
(***************************************************************************)
\* The ADP rows the first loop has already handled; matches[k] is the record
\* appended for adp_df[k].
Processed == 1..(i - 1)

\* Which columns the frame df already has.
HasDiff == pc \in {"severity", "direction", "needs_action", "sort", "script", "done", "raised"}
HasSeverity == pc \in {"direction", "needs_action", "sort", "script", "done", "raised"}
HasDirection == pc \in {"needs_action", "sort", "script", "done", "raised"}

\* _overlap_score over the names of the inputs, tabulated once.
ScoreTable ==
    {<<a, b, _overlap_score(a, b)>> : a \in AdpNames, b \in AmzNames}

ScoreOf(adp_name, amz_name) ==
    (CHOOSE t \in ScoreTable : t[1] = adp_name /\ t[2] = amz_name)[3]

ScoresOf(a) ==
    [b \in 1..Len(amazon_df) |-> ScoreOf(a.adp_name, amazon_df[b].amz_name)]

\* The Amazon rows with the highest score for ADP row a that no earlier row
\* equals: one row, or none when amazon_df is empty.
FirstHighest(a) ==
    LET S == ScoresOf(a)
    IN  {b \in 1..Len(amazon_df) :
            \A c \in 1..Len(amazon_df) :
                /\ ScoreGe(S[b], S[c])
                /\ c < b => ScoreGt(S[b], S[c])}

\* The Amazon rows that ADP row a selects with an accepted score.
SelectedBy(a) ==
    {b \in FirstHighest(a) : ScoreGe(ScoresOf(a)[b], THRESHOLD)}

IsAdpOnly(r, a) ==
    /\ r.adp_name = a.adp_name
    /\ r.adp_break_minutes = a.adp_break_minutes
    /\ r.amz_name = NoName
    /\ isna(r.amz_break_minutes)
    /\ r.match_score = 0

IsPair(r, a, b) ==
    /\ r.adp_name = a.adp_name
    /\ r.adp_break_minutes = a.adp_break_minutes
    /\ r.amz_name = b.amz_name
    /\ r.amz_break_minutes = b.amz_break_minutes

\* C1: every record of match_employees has match score exactly 0 or at least
\* 0.33; none lies strictly between.
C1_ScoreZeroOrAccepted ==
    /\ \A k \in 1..Len(matches) :
          matches[k].match_score = 0 \/ matches[k].match_score >= 33
    /\ \A k \in 1..Len(df) : df[k].match_score = 0 \/ df[k].match_score >= 33

\* Reached: a pair accepted at the boundary (score 1/3) together with an ADP
\* row whose best score is positive but below the threshold.
C1_Witness ==
    /\ pc = "diff"
    /\ \E k \in 1..Len(matches) : matches[k].match_score = 33
    /\ \E k \in 1..Len(adp_df) : \E b \in FirstHighest(adp_df[k]) :
          /\ ScoresOf(adp_df[k])[b].num > 0
          /\ ~ScoreGe(ScoresOf(adp_df[k])[b], THRESHOLD)
          /\ matches[k].match_score = 0

\* C2 as stated: each ADP row is paired with the first highest-scoring Amazon
\* row, carrying exactly that score, when the score is >= 0.33, and is emitted
\* alone with score 0 otherwise.
C2_PairCarriesExactScore ==
    \A k \in Processed :
        LET a == adp_df[k]
            r == matches[k]
            S == ScoresOf(a)
        IN  IF SelectedBy(a) # {}
            THEN \E b \in SelectedBy(a) :
                    /\ IsPair(r, a, amazon_df[b])
                    /\ r.match_score * S[b].den = 100 * S[b].num
            ELSE IsAdpOnly(r, a)

\* C2 amended: as above, the pair carrying the score rounded to two decimals
\* (the hundredth nearest to it).
C2_PairCarriesRoundedScore ==
    \A k \in Processed :
        LET a == adp_df[k]
            r == matches[k]
            S == ScoresOf(a)
        IN  IF SelectedBy(a) # {}
            THEN \E b \in SelectedBy(a) :
                    /\ IsPair(r, a, amazon_df[b])
                    /\ 2 * Abs(r.match_score * S[b].den - 100 * S[b].num) <= S[b].den
            ELSE IsAdpOnly(r, a)

\* Reached: one ADP row paired after a tie between two Amazon rows (the first
\* wins), another emitted alone although Amazon rows exist.
C2_Witness ==
    /\ pc = "match"
    /\ i > Len(adp_df)
    /\ \E k \in Processed : \E b \in SelectedBy(adp_df[k]) :
          \E c \in 1..Len(amazon_df) :
              /\ c > b
              /\ ScoresOf(adp_df[k])[c] = ScoresOf(adp_df[k])[b]
              /\ matches[k].amz_name = amazon_df[b].amz_name
    /\ \E k \in Processed : matches[k].amz_name = NoName /\ Len(amazon_df) > 0

\* The Amazon-only records of matches that carry Amazon row b.
AmzOnlyFor(b) ==
    {k \in 1..Len(matches) :
        /\ matches[k].adp_name = NoName
        /\ matches[k].amz_name = amazon_df[b].amz_name}

\* C3: once match_employees has finished, every Amazon row that no ADP row
\* selected with an accepted score has exactly one Amazon-only record, of
\* score 0, and every selected Amazon row has none.
C3_UnclaimedEmittedOnce ==
    pc # "match" =>
        \A b \in 1..Len(amazon_df) :
            /\ Cardinality(AmzOnlyFor(b)) =
                  IF \E k \in 1..Len(adp_df) : b \in SelectedBy(adp_df[k])
                  THEN 0 ELSE 1
            /\ \A k \in AmzOnlyFor(b) :
                  /\ matches[k].match_score = 0
                  /\ matches[k].amz_break_minutes = amazon_df[b].amz_break_minutes

\* Reached: a finished run with one Amazon row claimed and another unclaimed.
C3_Witness ==
    /\ pc = "diff"
    /\ \E b \in 1..Len(amazon_df) : \E k \in 1..Len(adp_df) : b \in SelectedBy(adp_df[k])
    /\ \E b \in 1..Len(amazon_df) : AmzOnlyFor(b) # {}

\* C4: every step of the first loop appends, for its ADP row, the record that
\* match_employees emits for that row alone against the same Amazon frame,
\* whatever earlier rows have claimed.
C4_NonExclusive ==
    [][i' = i + 1 =>
          matches' = Append(matches, MatchList(<<adp_df[i]>>, amazon_df)[1])]_vars

\* Reached: two ADP rows paired with the same Amazon row in one pass.
C4_Witness ==
    \E k1, k2 \in Processed :
        /\ k1 < k2
        /\ matches[k1].amz_name # NoName
        /\ matches[k1].amz_name = matches[k2].amz_name

\* C5: every record has at least one side present.
C5_OneSidePresent ==
    /\ \A k \in 1..Len(matches) :
          matches[k].adp_name # NoName \/ matches[k].amz_name # NoName
    /\ \A k \in 1..Len(df) : df[k].adp_name # NoName \/ df[k].amz_name # NoName

\* Reached: a returned frame holding an ADP-only and an Amazon-only record.
C5_Witness ==
    /\ pc = "diff"
    /\ \E k \in 1..Len(df) : df[k].amz_name = NoName
    /\ \E k \in 1..Len(df) : df[k].adp_name = NoName

\* C6: the delta is present exactly when both minute values are, and is then
\* Amazon minus ADP minutes rounded to one decimal: the tenth nearest to the
\* difference, the even one of two equally near.
C6_DeltaIsRoundedDifference ==
    HasDiff =>
        \A k \in 1..Len(df) :
            LET a == df[k].amz_break_minutes
                b == df[k].adp_break_minutes
                d == df[k].diff_minutes
                off == Abs(10 * (a.v - b.v) - 4 * d.v)
            IN  /\ notna(d) <=> (notna(a) /\ notna(b))
                /\ notna(d) => off <= 2 /\ (off = 2 => d.v % 2 = 0)

\* Reached: a negative difference that rounding changes (-1.25 becomes -1.2).
C6_Witness ==
    /\ HasDiff
    /\ \E k \in 1..Len(df) :
          /\ notna(df[k].diff_minutes)
          /\ df[k].diff_minutes.v < 0
          /\ 4 * df[k].diff_minutes.v #
                10 * (df[k].amz_break_minutes.v - df[k].adp_break_minutes.v)

Severities == {"Match", "Minor", "Moderate", "Major", "Missing Entry"}

\* C7: every row has one of the five severities, and it is Missing Entry
\* exactly when a minute value is absent on at least one side.
C7_SeverityTotal ==
    HasSeverity =>
        \A k \in 1..Len(df) :
            /\ df[k].severity \in Severities
            /\ df[k].severity = "Missing Entry" <=>
                  (isna(df[k].amz_break_minutes) \/ isna(df[k].adp_break_minutes))

\* Reached: a paired row with ADP minutes present and Amazon minutes absent.
C7_Witness ==
    /\ HasSeverity
    /\ \E k \in 1..Len(df) :
          /\ notna(df[k].adp_break_minutes)
          /\ isna(df[k].amz_break_minutes)
          /\ df[k].amz_name # NoName
          /\ df[k].severity = "Missing Entry"

\* C8: with both minute values present the severity follows |delta| with
\* inclusive upper bounds 1, 5 and 15; ADP 20 / Amazon 19 is a Match and
\* ADP 20 / Amazon 30 is Moderate.
C8_SeverityTiers ==
    HasSeverity =>
        \A k \in 1..Len(df) :
            LET a == df[k].amz_break_minutes
                b == df[k].adp_break_minutes
                d == Abs(df[k].diff_minutes.v)
            IN  (notna(a) /\ notna(b)) =>
                   /\ d <= 10 => df[k].severity = "Match"
                   /\ (10 < d /\ d <= 50) => df[k].severity = "Minor"
                   /\ (50 < d /\ d <= 150) => df[k].severity = "Moderate"
                   /\ d > 150 => df[k].severity = "Major"
                   /\ (b = Num(80) /\ a = Num(76)) => df[k].severity = "Match"
                   /\ (b = Num(80) /\ a = Num(120)) => df[k].severity = "Moderate"

\* Reached: |delta| exactly 15 classified Moderate.
C8_Witness ==
    /\ HasSeverity
    /\ \E k \in 1..Len(df) :
          /\ notna(df[k].diff_minutes)
          /\ Abs(df[k].diff_minutes.v) = 150
          /\ df[k].severity = "Moderate"

\* C9: direction is Warning Missing for a Missing Entry, else "-" for an
\* absent delta, else Match for |delta| <= 1, else Amazon > ADP for a
\* positive and ADP > Amazon for a negative delta.
C9_Direction ==
    HasDirection =>
        \A k \in 1..Len(df) :
            LET d == df[k].diff_minutes
            IN  df[k].direction =
                   IF df[k].severity = "Missing Entry" THEN "Warning Missing"
                   ELSE IF isna(d) THEN "-"
                   ELSE IF Abs(d.v) <= 10 THEN "Match"
                   ELSE IF d.v > 0 THEN "Amazon > ADP"
                   ELSE "ADP > Amazon"

\* Reached: a negative delta beyond one minute, labelled ADP > Amazon.
C9_Witness ==
    /\ HasDirection
    /\ \E k \in 1..Len(df) :
          /\ notna(df[k].diff_minutes)
          /\ df[k].diff_minutes.v < -10
          /\ df[k].direction = "ADP > Amazon"

\* C10: whatever is absent in the records, classification and script
\* generation complete without raising, and every record with an absent
\* minute value ends as Missing Entry / Warning Missing with a script.
C10_NeverRaisesOnAbsentData ==
    Len(df) > 0 =>
        /\ pc # "raised"
        /\ pc = "done" =>
              \A k \in 1..Len(df) :
                  (isna(df[k].amz_break_minutes) \/ isna(df[k].adp_break_minutes)) =>
                      /\ df[k].severity = "Missing Entry"
                      /\ df[k].direction = "Warning Missing"
                      /\ df[k].conversation_script.template # ""

(***************************************************************************)
(* run_analysis from the return of match_employees on: frames whose pairs  *)
(* fall in every severity tier, classified, sorted and scripted.           *)
(***************************************************************************)
SortAdpFrames ==
    LET names == { <<65, 108, 32, 66, 111>>,                   \* "Al Bo"
                   <<97, 108, 32, 99, 121, 32, 100, 105>>,     \* "al cy di"
                   <<74, 32, 82>> }                            \* "J R"
        rows == [adp_name : names, adp_break_minutes : {Num(80)}]
        seqs == UNION {[1..n -> rows] : n \in 0..MaxAdp}
    IN  {g \in seqs : Distinct([k \in 1..Len(g) |-> g[k].adp_name])}

SortAmazonFrames ==
    LET rows == [amz_name : AmzNames,
                 amz_break_minutes : {Num(76), Num(100), Num(120), Num(144), NaN}]
        seqs == UNION {[1..n -> rows] : n \in 0..MaxAmz}
    IN  {g \in seqs : Distinct([k \in 1..Len(g) |-> g[k].amz_name])}

\* The state in which match_employees returns.
InitSort ==
    /\ adp_df \in SortAdpFrames
    /\ amazon_df \in SortAmazonFrames
    /\ pc = "diff"
    /\ i = Len(adp_df) + 1
    /\ j = Len(amazon_df) + 1
    /\ used_amz = FirstLoop(adp_df, amazon_df, Len(adp_df)).used_amz
    /\ matches = MatchList(adp_df, amazon_df)
    /\ df = DataFrame(matches)
    /\ error = "none"

NextSort ==
    \/ CalcDiff
    \/ CalcSeverity
    \/ CalcDirection
    \/ CalcNeedsAction
    \/ SortResult
    \/ ApplyBuildScript
    \/ ApplyBuildScriptEmpty

SpecSort == InitSort /\ [][NextSort]_vars

\* The frame has been sorted.
Sorted == pc \in {"script", "done", "raised"}

\* The rank the sort contract gives each severity label.
SeverityRank(sev) ==
    IF sev = "Major" THEN 0
    ELSE IF sev = "Moderate" THEN 1
    ELSE IF sev = "Minor" THEN 2
    ELSE IF sev = "Missing Entry" THEN 3
    ELSE IF sev = "Match" THEN 4
    ELSE 5

\* The name a record is shown under: the ADP name, or the Amazon name when
\* the ADP name is absent.
EmployeeName(r) == IF r.adp_name # NoName THEN r.adp_name ELSE r.amz_name

\* C11: in the output of run_analysis the severity groups come in the order
\* Major, Moderate, Minor, Missing Entry, Match: no record is preceded by a
\* record of a higher rank.
C11_SeverityGroupsInOrder ==
    Sorted =>
        \A k, l \in 1..Len(df) :
            k < l => SeverityRank(df[k].severity) <= SeverityRank(df[l].severity)

\* A returned frame of three records with two severities whose first record
\* was not the first one match_employees built.
C11_Witness ==
    /\ pc = "done"
    /\ Len(df) >= 3
    /\ df[1].severity # df[Len(df)].severity
    /\ df[1].adp_name # matches[1].adp_name

\* C12: within one severity group of the output the employee names (ADP name,
\* or Amazon name when the ADP name is absent) are non-decreasing.
C12_NamesNonDecreasingInGroup ==
    pc = "done" =>
        \A k, l \in 1..Len(df) :
            (k < l /\ df[k].severity = df[l].severity)
                => ~StrLess(EmployeeName(df[l]), EmployeeName(df[k]))

\* C13: for a Missing Entry record the script names the employee (ADP name,
\* else Amazon name); when the Amazon minutes are absent it cites the ADP
\* minute value and asks for an Amazon entry, and when the ADP minutes are
\* absent it cites the Amazon minute value and asks for an ADP entry.
C13_MissingEntryScriptBySide ==
    pc = "done" =>
        \A k \in 1..Len(df) :
            df[k].severity = "Missing Entry" =>
                LET s == df[k].conversation_script
                    a_m == df[k].amz_break_minutes
                    b_m == df[k].adp_break_minutes
                IN  /\ s.emp = EmployeeName(df[k])
                    /\ isna(a_m) =>
                          /\ s.template = "Logged in ADP, no record in Amazon app"
                          /\ notna(b_m)
                          /\ s.shown = <<Num(RoundHalfEven(b_m.v, 4))>>
                    /\ isna(b_m) =>
                          /\ s.template = "Logged in Amazon app, no entry in ADP"
                          /\ notna(a_m)
                          /\ s.shown = <<Num(RoundHalfEven(a_m.v, 4))>>

Tiers == {"Minor", "Moderate", "Major"}

\* C14: for a record of severity Minor, Moderate or Major the difference is
\* present and not 0, the script calls "longer" the source with the larger
\* minute value and "shorter" the other: the Amazon app exactly when the
\* direction is "Amazon > ADP", ADP exactly when it is "ADP > Amazon".
C14_LongerFollowsDirection ==
    pc = "done" =>
        \A k \in 1..Len(df) :
            df[k].severity \in Tiers =>
                LET s == df[k].conversation_script
                    a_m == df[k].amz_break_minutes
                    b_m == df[k].adp_break_minutes
                IN  /\ notna(df[k].diff_minutes)
                    /\ df[k].diff_minutes.v # 0
                    /\ notna(a_m) /\ notna(b_m)
                    /\ s.template = "Discrepancy"
                    /\ s.longer = "Amazon app" <=> df[k].direction = "Amazon > ADP"
                    /\ s.longer = "ADP" <=> df[k].direction = "ADP > Amazon"
                    /\ s.longer = "Amazon app" =>
                          (a_m.v > b_m.v /\ s.shorter = "ADP")
                    /\ s.longer = "ADP" =>
                          (b_m.v > a_m.v /\ s.shorter = "Amazon app")

\* A scripted record whose ADP minutes are the larger ones.
C14_Witness ==
    /\ pc = "done"
    /\ \E k \in 1..Len(df) :
          /\ df[k].severity \in Tiers
          /\ df[k].diff_minutes.v < 0
          /\ df[k].conversation_script.longer = "ADP"

\* calculate_discrepancies applied to a frame.
Classified(frame) ==
    WithNeedsAction(WithDirection(WithSeverity(WithDiff(frame))))

\* C16: applying calculate_discrepancies and build_script again to records
\* that are already classified (and scripted) leaves delta, severity,
\* direction, needs-action and script as they are.
C16_ClassifyIdempotent ==
    /\ pc \in {"sort", "script"} => Classified(df) = df
    /\ pc = "done" => WithScript(Classified(df)) = df

\* A scripted record with a discrepancy, classified a second time.
C16_Witness ==
    /\ pc = "done"
    /\ Len(df) > 0
    /\ df[1].severity = "Moderate"
    /\ WithScript(Classified(df))[1].conversation_script.template = "Discrepancy"

\* C17: needs_action is true exactly when the severity is Minor, Moderate,
\* Major or Missing Entry, that is, false exactly when it is Match.
C17_NeedsActionUnlessMatch ==
    pc \in {"sort", "script", "done", "raised"} =>
        \A k \in 1..Len(df) :
            /\ df[k].needs_action \in BOOLEAN
            /\ df[k].needs_action <=>
                  df[k].severity \in {"Minor", "Moderate", "Major", "Missing Entry"}
            /\ ~df[k].needs_action <=> df[k].severity = "Match"

\* A Missing Entry record that is flagged.
C17_Witness ==
    /\ pc = "done"
    /\ \E k \in 1..Len(df) :
          df[k].severity = "Missing Entry" /\ df[k].needs_action

(***************************************************************************)
(* match_employees on one ADP row and one Amazon row, over names built     *)
(* from parts that exercise every rule of the tokenizer: a capital after a *)
(* lower-case letter, a digit, a hyphen, a space, a one-letter word.       *)
(***************************************************************************)
MaxParts == 3

NameParts ==
    { <<65, 108>>,     \* "Al"
      <<98, 111>>,     \* "bo"
      <<88>>,          \* "X"
      <<57>>,          \* "9"
      <<32>>,          \* " "
      <<45>> }         \* "-"

JohnSmith == <<74, 111, 104, 110, 32, 83, 109, 105, 116, 104>>          \* "John Smith"
JohnSmith99 == <<74, 111, 104, 110, 83, 109, 105, 116, 104, 57, 57>>    \* "JohnSmith99"

AdpNamePool ==
    {JohnSmith} \cup
    UNION {{Concat(f) : f \in [1..n -> NameParts]} : n \in 1..MaxParts}

AmzNamePool ==
    { JohnSmith99,
      <<65, 108, 66, 111, 57>>,      \* "AlBo9"
      <<97, 108, 98, 111>>,          \* "albo"
      <<98, 111>>,                   \* "bo"
      <<57, 45>> }                   \* "9-"

InitNames ==
    /\ adp_df \in {<<[adp_name |-> x, adp_break_minutes |-> Num(80)]>> :
                     x \in AdpNamePool}
    /\ amazon_df \in {<<[amz_name |-> y, amz_break_minutes |-> Num(120)]>> :
                        y \in AmzNamePool}
    /\ pc = "match"
    /\ i = 1
    /\ j = 1
    /\ used_amz = {}
    /\ matches = << >>
    /\ df = << >>
    /\ error = "none"

NextNames ==
    \/ MatchAdpRow
    \/ ScanUnmatchedAmazon
    \/ ReturnMatches

SpecNames == InitNames /\ [][NextNames]_vars

\* a occurs in b at some offset.
OccursIn(a, b) ==
    \E off \in 0..(Len(b) - Len(a)) : \A m \in 1..Len(a) : b[off + m] = a[m]

\* The score the contract gives two names, from their token sets.
ContractScore(x, y) ==
    LET TX == _name_tokens(x)
        TY == _name_tokens(y)
        matched == {t \in TX : \E u \in TY : OccursIn(t, u) \/ OccursIn(u, t)}
    IN  IF TX = {} \/ TY = {} THEN [num |-> 0, den |-> 1]
        ELSE [num |-> Cardinality(matched),
              den |-> IF Cardinality(TX) >= Cardinality(TY)
                      THEN Cardinality(TX) ELSE Cardinality(TY)]

\* C15: _overlap_score(X, Y) is 0 when either token set is empty and else
\* the number of tokens of TX that occur in, or contain, some token of TY,
\* divided by max(|TX|, |TY|); it lies in [0, 1], and it is 1 for
\* "John Smith" against "JohnSmith99".  A pair carries that score, rounded.
C15_OverlapScore ==
    \A a \in Processed, b \in 1..Len(amazon_df) :
        LET X == adp_df[a].adp_name
            Y == amazon_df[b].amz_name
            s == _overlap_score(X, Y)
            c == ContractScore(X, Y)
        IN  /\ matches[a].amz_name = Y => matches[a].match_score = RoundScore(c)
            /\ s.den > 0
            /\ s.num * c.den = c.num * s.den
            /\ 0 <= s.num /\ s.num <= s.den
            /\ (_name_tokens(X) = {} \/ _name_tokens(Y) = {}) => s.num = 0
            /\ (X = JohnSmith /\ Y = JohnSmith99) => s.num = s.den

\* "John Smith" has been scored against "JohnSmith99" and paired with it at
\* score 1.0.
C15_Witness ==
    /\ i > 1
    /\ adp_df[1].adp_name = JohnSmith
    /\ amazon_df[1].amz_name = JohnSmith99
    /\ matches[1].amz_name = JohnSmith99
    /\ matches[1].match_score = 100

\* Tokens when the other characters are removed without leaving a gap.
TokensWhenDeleting(name) ==
    {w \in SplitWords(LettersOnlyLowerDeleting(_split_camelcase(name))) :
        Len(w) > 1}

\* The names the tokenizer has been applied to.
TokenizedNames ==
    IF i > 1 THEN {adp_df[1].adp_name, amazon_df[1].amz_name} ELSE {}

\* C18 as stated: a character that is neither a letter nor whitespace is
\* removed without making a token boundary, so a digit or punctuation mark
\* inside a word does not split it.
C18_StrippedWithoutBoundary ==
    \A name \in TokenizedNames : _name_tokens(name) = TokensWhenDeleting(name)

\* A word of a name: a maximal run of letters with no capital directly after
\* a lower-case letter inside it.
WordBreak(name, k) ==
    \/ k < 1
    \/ k >= Len(name)
    \/ ~IsLetter(name[k])
    \/ ~IsLetter(name[k + 1])
    \/ (IsLower(name[k]) /\ IsUpper(name[k + 1]))

WordsOf(name) ==
    {[k \in 1..(hi - lo + 1) |-> ToLower(name[lo + k - 1])] :
        <<lo, hi>> \in {p \in (1..Len(name)) \X (1..Len(name)) :
            /\ p[1] <= p[2]
            /\ \A k \in p[1]..p[2] : IsLetter(name[k])
            /\ \A k \in p[1]..(p[2] - 1) : ~WordBreak(name, k)
            /\ WordBreak(name, p[1] - 1)
            /\ WordBreak(name, p[2])}}

\* C18 amended: every character that is neither a letter nor whitespace
\* separates tokens, as whitespace and a lower-case-to-capital boundary do;
\* the tokens are the lower-cased words longer than one character.
C18_OtherCharactersSeparate ==
    \A name \in TokenizedNames :
        _name_tokens(name) = {w \in WordsOf(name) : Len(w) > 1}

\* A tokenized name with a digit or hyphen between two letters, which yields
\* the word before it and the word after it as two tokens.
C18_Witness ==
    \E name \in TokenizedNames :
        /\ \E k \in 2..(Len(name) - 1) :
              /\ name[k] \in {45, 57}
              /\ IsLetter(name[k - 1])
              /\ IsLetter(name[k + 1])
        /\ Cardinality(_name_tokens(name)) = 2

\* Two cells hold the same minutes.
SameCell(x, y) == x = y \/ (isna(x) /\ isna(y))

AdpSideOf(r, a) ==
    /\ r.adp_name = adp_df[a].adp_name
    /\ SameCell(r.adp_break_minutes, adp_df[a].adp_break_minutes)

AmzSideOf(r, b) ==
    /\ r.amz_name = amazon_df[b].amz_name
    /\ SameCell(r.amz_break_minutes, amazon_df[b].amz_break_minutes)

\* C19: in the frame match_employees returns, and in it after classification
\* and sorting, every ADP record is in exactly one row, every Amazon record
\* in at least one row, no row holds a side that is not an input record, and
\* the number of rows is the number of ADP records plus the number of Amazon
\* records never claimed.
C19_NoRecordLostOrInvented ==
    pc # "match" =>
        /\ \A a \in 1..Len(adp_df) :
              Cardinality({k \in 1..Len(df) : AdpSideOf(df[k], a)}) = 1
        /\ \A b \in 1..Len(amazon_df) :
              \E k \in 1..Len(df) : AmzSideOf(df[k], b)
        /\ \A k \in 1..Len(df) :
              /\ df[k].adp_name = NoName \/ \E a \in 1..Len(adp_df) : AdpSideOf(df[k], a)
              /\ df[k].amz_name = NoName \/ \E b \in 1..Len(amazon_df) : AmzSideOf(df[k], b)
              /\ df[k].adp_name # NoName \/ df[k].amz_name # NoName
        /\ Len(df) = Len(adp_df)
                     + Cardinality({b \in 1..Len(amazon_df) : b \notin used_amz})

\* A returned frame with a pair, an unclaimed Amazon record placed after it,
\* and an Amazon record claimed by two ADP records.
C19_Witness ==
    /\ pc = "done"
    /\ Len(adp_df) = 2
    /\ Len(amazon_df) = 2
    /\ Len(df) = 3
    /\ df[1].amz_name = df[2].amz_name
    /\ df[3].adp_name = NoName

=============================================================================
